---- MODULE Spec2Model ----
(***************************************************************************)
(* Alertmanager -> Gotify webhook bridge.                                  *)
(*                                                                         *)
(* The model follows main, bridge.handleCall and renderTemplate of the     *)
(* bridge, MetricsCollector.Collect of the metrics collector, and the      *)
(* earlier handler bridge.handle_call of main.go.  Strings are             *)
(* sequences of tokens, so that `+=` (concatenation) and `=` (assignment)  *)
(* on title and message stay distinguishable.                              *)
(***************************************************************************)
EXTENDS Integers, Sequences, FiniteSets, TLC

(***************************************************************************)
(* Bounds of the model.                                                    *)
(***************************************************************************)
MaxAlerts == 3      \* alerts of one request
MaxHandlers == 2    \* requests handled at the same time

(***************************************************************************)
(* Program constants.                                                      *)
(***************************************************************************)
StatusOK == 200
StatusBadRequest == 400
StatusInternalServerError == 500
StartsAtCut == 19
DefaultPriorityFlag == 5

titleAnnotation == "summary"
messageAnnotation == "description"
priorityAnnotation == "priority"

ErrorTitle == <<"Alertmanager-Gotify-Bridge Error">>
MarkerResolved == "<font style='color: #00b339;' data-mx-color='#00b339'>RESOLVED</font><br/> "
MarkerFiring == "<font style='color: #b31e00;' data-mx-color='#b31e00'>FIRING</font><br/> "

(***************************************************************************)
(* Template texts are sequences of characters.                             *)
(***************************************************************************)
TplPlain == <<"u", "p">>
TplStatus == <<"{", "{", ".", "S", "t", "a", "t", "u", "s", "}", "}">>
TplBogus == <<"{", "{", ".", "B", "o", "g", "u", "s", "}", "}">>
TplQuery == <<"{", "{", " ", "q", "u", "e", "r", "y", " ", "x", "}", "}">>
TplExternalURL == <<"{", "{", "e", "x", "t", "e", "r", "n", "a", "l", "U", "R", "L", "}", "}">>

\* strings.Contains
Contains(s, sub) ==
    \E i \in 0..(Len(s) - Len(sub)) :
        \A j \in 1..Len(sub) : s[i + j] = sub[j]

\* strings.HasPrefix
HasPrefix(s, p) ==
    /\ Len(s) >= Len(p)
    /\ \A j \in 1..Len(p) : s[j] = p[j]

OpenTight == <<"{", "{">>
OpenSpaced == <<"{", "{", " ">>
FnQuery == <<"q", "u", "e", "r", "y">>
FnFirst == <<"f", "i", "r", "s", "t">>
FnLabel == <<"l", "a", "b", "e", "l">>
FnValue == <<"v", "a", "l", "u", "e">>
FnStrvalue == <<"s", "t", "r", "v", "a", "l", "u", "e">>
FnSafeHtml == <<"s", "a", "f", "e", "H", "t", "m", "l">>
FnSortByLabel == <<"s", "o", "r", "t", "B", "y", "L", "a", "b", "e", "l">>

\* the order of the cases of the switch in renderTemplate
Denylist == <<FnQuery, FnFirst, FnLabel, FnValue, FnStrvalue, FnSafeHtml, FnSortByLabel>>

CallsFn(templateString, f) ==
    \/ Contains(templateString, OpenSpaced \o f)
    \/ Contains(templateString, OpenTight \o f)

\* as UnsupportedFunc, but only the spelling with a space is looked for
UnsupportedFunc_SpacedOnly(templateString) ==
    IF \E k \in 1..Len(Denylist) : Contains(templateString, OpenSpaced \o Denylist[k])
    THEN Denylist[CHOOSE k \in 1..Len(Denylist) :
                    /\ Contains(templateString, OpenSpaced \o Denylist[k])
                    /\ \A m \in 1..(k - 1) :
                          ~Contains(templateString, OpenSpaced \o Denylist[m])]
    ELSE <<>>

\* the first case of the switch that matches, <<>> for the default case
UnsupportedFunc(templateString) ==
    IF \E k \in 1..Len(Denylist) : CallsFn(templateString, Denylist[k])
    THEN Denylist[CHOOSE k \in 1..Len(Denylist) :
                    /\ CallsFn(templateString, Denylist[k])
                    /\ \A m \in 1..(k - 1) : ~CallsFn(templateString, Denylist[m])]
    ELSE <<>>

NoURL == "nil"

\* titleTemplate.Expand() on the template texts of the model
Expand(templateString, data, externalURL) ==
    IF ~Contains(templateString, OpenTight)
    THEN [ok |-> TRUE, result |-> templateString, err |-> <<>>]
    ELSE IF templateString = TplStatus
    THEN [ok |-> TRUE, result |-> <<data.Status>>, err |-> <<>>]
    ELSE IF templateString = TplExternalURL /\ externalURL # NoURL
    THEN [ok |-> TRUE, result |-> <<externalURL>>, err |-> <<>>]
    ELSE [ok |-> FALSE, result |-> <<>>, err |-> <<"expand error">>]

renderTemplate(templateString, data, externalURL) ==
    LET unsupportedFunc == UnsupportedFunc(templateString)
        e == Expand(templateString, data, externalURL)
    IN  IF unsupportedFunc = <<>>
        THEN IF e.ok
             THEN [ok |-> TRUE, result |-> e.result, err |-> <<>>]
             ELSE [ok |-> FALSE, result |-> <<>>,
                   err |-> <<"error in Template: ">> \o e.err]
        ELSE [ok |-> FALSE, result |-> <<>>,
              err |-> <<"error in Template: The bridge does not support the function ">>
                         \o unsupportedFunc]


(***************************************************************************)
(* time.Duration is an int64 of nanoseconds.  A duration is kept as its    *)
(* eight bytes, the lowest first, and multiplied as the machine does it,   *)
(* modulo 2^64.                                                            *)
(***************************************************************************)
Bytes == 0..7

RECURSIVE ByteOf(_, _)
ByteOf(n, k) == IF k = 0 THEN n % 256 ELSE ByteOf(n \div 256, k - 1)

\* the int64 of a natural number below 2^31
Int64(n) == [k \in Bytes |-> ByteOf(n, k)]

RECURSIVE Column(_, _, _, _)
Column(a, b, k, i) ==
    IF i > k THEN 0 ELSE a[i] * b[k - i] + Column(a, b, k, i + 1)

RECURSIVE Carried(_, _, _)
Carried(a, b, k) ==
    Column(a, b, k, 0) + (IF k = 0 THEN 0 ELSE Carried(a, b, k - 1) \div 256)

\* a * b on int64
Mul64(a, b) == [k \in Bytes |-> Carried(a, b, k) % 256]

\* time.Second
Second == Int64(1000000000)
Millisecond == Int64(1000000)

\* the sign bit of the int64
Negative(d) == d[7] >= 128

\* the values of --timeout: 500ms, 1s, 5s (the default), 10s, 20s
TimeoutFlags ==
    {Mul64(Int64(500), Millisecond)} \cup
    {Mul64(Int64(n), Second) : n \in {1, 5, 10, 20}}

DefaultTimeout == Mul64(Int64(5), Second)

\* lines 411-413, and the same in Collect: the Timeout of the http.Client
ClientTimeout(c) == Mul64(c.timeout, Second)

\* http.Client: a Timeout that is zero or negative sets no deadline
HasDeadline(d) == ~Negative(d) /\ d # Int64(0)

(***************************************************************************)
(* Inputs: alerts, request bodies, configuration.                          *)
(***************************************************************************)
StartsAtLong == <<"2", "0", "2", "0", "-", "0", "1", "-", "0", "2", "T",
                  "0", "3", ":", "0", "4", ":", "0", "5", "Z">>
StartsAtShort == <<"2", "0", "2", "0">>
GenHTTP == <<"h", "t", "t", "p", ":", "/", "/", "g">>
GenOther == <<"g">>

ValidURLs == {"http://am"}
BadURLs == {":bad"}

\* url.Parse: the parsed URL, or nil together with an error
ParseURL(s) == IF s \in ValidURLs THEN s ELSE NoURL

MapOf(S, V) == UNION {[D -> V] : D \in SUBSET S}

AnnotationValues(k) ==
    IF k = priorityAnnotation THEN {<<"7">>, <<"critical">>}
    ELSE {TplPlain, TplQuery}

\* strconv.Atoi on the priority texts of the model
Atoi(val) ==
    IF val = <<"7">> THEN [ok |-> TRUE, n |-> 7] ELSE [ok |-> FALSE, n |-> 0]

AnnotationMaps ==
    {f \in MapOf({titleAnnotation, messageAnnotation, priorityAnnotation},
                 {TplPlain, TplQuery, <<"7">>, <<"critical">>}) :
        \A k \in DOMAIN f : f[k] \in AnnotationValues(k)}

Alerts ==
    [Annotations : AnnotationMaps,
     Status : {"firing", "resolved", "pending"},
     GeneratorURL : {GenHTTP, GenOther},
     StartsAt : {<<>>, StartsAtShort, StartsAtLong},
     ExternalURL : {""}]

\* the alerts of the batches: a complete alert, one without the title
\* annotation, one without the message annotation, one whose message does
\* not render, and the first two again with a short start time
BatchAlerts ==
    {a \in Alerts :
        /\ a.Status = "firing"
        /\ a.GeneratorURL = GenHTTP
        /\ a.StartsAt # <<>>
        /\ priorityAnnotation \notin DOMAIN a.Annotations
        /\ titleAnnotation \in DOMAIN a.Annotations
               => a.Annotations[titleAnnotation] = TplPlain
        /\ Cardinality(DOMAIN a.Annotations) >= 1
        /\ a.StartsAt = StartsAtShort
               => /\ messageAnnotation \in DOMAIN a.Annotations
                  /\ a.Annotations[messageAnnotation] = TplPlain
        /\ titleAnnotation \notin DOMAIN a.Annotations
               => a.Annotations[messageAnnotation] = TplPlain}

Configs ==
    [debug : BOOLEAN, dispatchErrors : BOOLEAN, extendedDetails : BOOLEAN,
     defaultPriority : {DefaultPriorityFlag}, gotifyToken : {"1"},
     endpointOK : BOOLEAN, timeout : {DefaultTimeout}]

(***************************************************************************)
(* The transform part of one iteration of the loop of handleCall.  l is    *)
(* the record of the handler's locals; each step returns the new locals.   *)
(***************************************************************************)
DiagMessage(err, b) ==
    <<"    Error: ">> \o err
      \o <<"\n\nAlso check Alertmanager, maybe an alert was raised!\n\nIcomming request:\n", b>>

\* lines 265-269: the per-alert locals
FreshLocals(c, l) ==
    [l EXCEPT !.extras = {}, !.proceed = TRUE, !.title = <<>>, !.message = <<>>,
              !.priority = c.defaultPriority, !.panicked = FALSE]

\* lines 276-281
ResolveExternalURL(alert, l) ==
    IF alert.ExternalURL # ""
    THEN [l EXCEPT !.externalURL = ParseURL(alert.ExternalURL)]
    ELSE l

\* lines 283-297
StatusMarker(c, alert, l) ==
    IF c.extendedDetails
    THEN LET l1 == [l EXCEPT !.extras = @ \cup {<<"client::display", "text/html">>}]
         IN  CASE alert.Status = "resolved" ->
                    [l1 EXCEPT !.message = @ \o <<MarkerResolved>>,
                               !.title = @ \o <<"[RES] ">>]
               [] alert.Status = "firing" ->
                    [l1 EXCEPT !.message = @ \o <<MarkerFiring>>,
                               !.title = @ \o <<"[FIR] ">>]
               [] OTHER -> l1
    ELSE l

\* as AnnotationFailure, but a status worse than 400 is kept
AnnotationFailure_KeepsWorse(c, b, errLine, l) ==
    LET l1 == [l EXCEPT !.proceed = FALSE, !.text = <<errLine>>,
                        !.respCode = IF @ > StatusBadRequest THEN @
                                     ELSE StatusBadRequest]
    IN  IF c.dispatchErrors
        THEN [l1 EXCEPT !.proceed = TRUE, !.title = ErrorTitle,
                        !.message = DiagMessage(errLine, b)]
        ELSE l1

\* lines 302-312, 321-332, 338-348, 355-366: the failure branch of a step
AnnotationFailure(c, b, errLine, l) ==
    LET l1 == [l EXCEPT !.proceed = FALSE, !.text = <<errLine>>,
                        !.respCode = StatusBadRequest]
    IN  IF c.dispatchErrors
        THEN [l1 EXCEPT !.proceed = TRUE, !.title = ErrorTitle,
                        !.message = DiagMessage(errLine, b)]
        ELSE l1

\* lines 299-333
TitleStep(c, alert, b, l) ==
    IF titleAnnotation \in DOMAIN alert.Annotations
    THEN LET r == renderTemplate(alert.Annotations[titleAnnotation], alert, l.externalURL)
         IN  IF ~r.ok
             THEN AnnotationFailure(c, b, r.err, l)
             ELSE [l EXCEPT !.title = @ \o r.result]
    ELSE AnnotationFailure(c, b, <<"Missing annotation: ", titleAnnotation>>, l)

\* lines 335-367
MessageStep(c, alert, b, l) ==
    IF messageAnnotation \in DOMAIN alert.Annotations
    THEN LET r == renderTemplate(alert.Annotations[messageAnnotation], alert, l.externalURL)
             l1 == [l EXCEPT !.message = r.result]
         IN  IF ~r.ok
             THEN AnnotationFailure(c, b, r.err, l1)
             ELSE l1
    ELSE AnnotationFailure(c, b, <<"Missing annotation: ", messageAnnotation>>, l)

\* lines 369-381
PriorityStep(alert, l) ==
    IF priorityAnnotation \in DOMAIN alert.Annotations
    THEN LET r == Atoi(alert.Annotations[priorityAnnotation])
         IN  IF r.ok THEN [l EXCEPT !.priority = r.n] ELSE l
    ELSE l

\* lines 383-394; alert.StartsAt[:19] panics on a shorter text
ExtendedSuffix(c, alert, l) ==
    IF c.extendedDetails
    THEN LET l1 == IF HasPrefix(alert.GeneratorURL, <<"h", "t", "t", "p">>)
                   THEN [l EXCEPT !.message = @ \o <<"<br/><a href='">> \o alert.GeneratorURL
                                                  \o <<"'>go to source</a>">>,
                                  !.extras = @ \cup {<<"client::notification", alert.GeneratorURL>>}]
                   ELSE l
         IN  IF alert.StartsAt # <<>>
             THEN IF Len(alert.StartsAt) < StartsAtCut
                  THEN [l1 EXCEPT !.panicked = TRUE]
                  ELSE [l1 EXCEPT !.message = @ \o <<"<br/><br/><i><font style='color: #999999;' data-mx-color='#999999'> alert created at: ">>
                                                  \o SubSeq(alert.StartsAt, 1, StartsAtCut)
                                                  \o <<"</font></i><br/>">>]
             ELSE l1
    ELSE l

\* lines 265-394
Transform(c, alert, b, l) ==
    ExtendedSuffix(c, alert,
      PriorityStep(alert,
        MessageStep(c, alert, b,
          TitleStep(c, alert, b,
            StatusMarker(c, alert,
              ResolveExternalURL(alert, FreshLocals(c, l)))))))


(***************************************************************************)
(* The state of the bridge.                                                *)
(***************************************************************************)
VARIABLES
    cfg,        \* the bridge struct and the flags, fixed at startup
    metrics,    \* the package-level metrics map
    pc,         \* position of the handler: "idle", "loop", "done", "panicked"
    body,       \* b, the raw body of the request being handled
    nAlerts,    \* len(notification.Alerts)
    idx,        \* number of alerts of the request the loop has taken
    l,          \* the locals of handleCall
    hist,       \* what the handler did with each alert taken so far
    cur,        \* the alert of the last iteration and the POST made for it
    resp,       \* the response written to w (code 0: none written)
    m0,         \* the metrics when the request arrived
    g,            \* the goroutines serving webhook requests: where each is,
                  \* the token parameter of its request, its local `token`
                  \* and the X-Gotify-Key of its last POST
    scraper,      \* the goroutine serving the metrics path
    hashWriting,  \* the writing flag of the metrics map
    alive,        \* FALSE once the runtime has stopped the process
    boot          \* main(): where it is, the environment and the flags it
                  \* was started with, its locals and its exit code

hvars == <<cfg, metrics, pc, body, nAlerts, idx, l, hist, cur, resp, m0>>
rvars == <<g, scraper, hashWriting, alive, boot>>
vars == <<hvars, rvars>>

Handlers == 1..MaxHandlers

Idle == [at |-> "idle", key |-> "", tmp |-> 0, then |-> "", left |-> 0,
         appToken |-> "", token |-> "", sent |-> ""]
\* the goroutine after its handler has returned, or its panic was recovered
Exited == [at |-> "exit", key |-> "", tmp |-> 0, then |-> "", left |-> 0,
           appToken |-> "", token |-> "", sent |-> ""]

MetricNames ==
    {"requests_received", "requests_invalid", "alerts_received",
     "alerts_invalid", "alerts_processed", "alerts_failed"}

\* as Inc, but the requests are not counted
Inc_SkipsRequests(m, k) ==
    IF k = "requests_received" THEN m ELSE [m EXCEPT ![k] = @ + 1]

\* metrics[k]++
Inc(m, k) == [m EXCEPT ![k] = @ + 1]

EmptyBody == ""
BadJSON == "{bad"
GoodJSON == "{alerts}"
Bodies == {EmptyBody, BadJSON, GoodJSON}

\* json.Unmarshal(b, &notification)
Unmarshal(b) ==
    IF b = GoodJSON THEN [ok |-> TRUE, err |-> <<>>]
    ELSE [ok |-> FALSE, err |-> <<"invalid character 'b' looking for beginning of object key string">>]

QueryTokens == {"", "X"}

\* the outcome of client.Do(request)
DownstreamOutcomes ==
    {[err |-> FALSE, status |-> 200],
     [err |-> FALSE, status |-> 503],
     [err |-> TRUE, status |-> 0]}

NoResponse == [code |-> 0, body |-> <<>>]
NoPost == [sent |-> FALSE]
NoAlert == [alert |-> "none", post |-> NoPost]

\* lines 207-211
InitLocals ==
    [token |-> "", externalURL |-> NoURL, text |-> <<>>, respCode |-> StatusOK,
     extras |-> {}, proceed |-> TRUE, title |-> <<>>, message |-> <<>>,
     priority |-> DefaultPriorityFlag, panicked |-> FALSE]

\* as ChooseToken, but the token parameter of the request is ignored
ChooseToken_AlwaysDefault(c, appToken) == c.gotifyToken

\* lines 215-226
ChooseToken(c, appToken) == IF appToken # "" THEN appToken ELSE c.gotifyToken

\* http.Error(w, strings.Join(text, "\n"), respCode): the lines stay apart
HttpError(text, code) == [code |-> code, body |-> text]

\* as ParseFailure, but answering what its comment announces, a 500
ParseFailure_Answers500(err, st) ==
    [resp |-> HttpError(<<err>>, StatusInternalServerError),
     metrics |-> Inc(st.metrics, "requests_invalid")]

\* lines 250-258: st is the locals and the metrics
ParseFailure(err, st) ==
    [resp |-> HttpError(<<err>>, StatusBadRequest),
     metrics |-> Inc(st.metrics, "requests_invalid")]

\* lines 459-462
NoContent(loc) ==
    [loc EXCEPT !.text = <<<<"No content sent">>>>, !.respCode = StatusBadRequest]

(***************************************************************************)
(* Startup.  An endpoint is a sequence of pieces of text, the slashes      *)
(* being pieces of their own.                                              *)
(***************************************************************************)
Slash == "/"
MessageSuffix == <<Slash, "message">>
EpDefault == <<"http:", Slash, Slash, "127.0.0.1:80", Slash, "message">>
EpApp == <<"http:", Slash, Slash, "host", Slash, "app">>
EpBracket == <<Slash, Slash, "[bad">>
EpNoScheme == <<"host">>
EndpointFlags ==
    {EpDefault, EpDefault \o <<Slash>>, EpApp, EpApp \o <<Slash>>,
     EpApp \o <<Slash, "xmessage">>, EpBracket, EpNoScheme, <<>>}

\* os.Getenv("GOTIFY_TOKEN"): empty when the variable is unset or empty
EnvTokens == {"", "secret"}

\* strings.HasSuffix
HasSuffix(s, suf) ==
    /\ Len(s) >= Len(suf)
    /\ SubSeq(s, Len(s) - Len(suf) + 1, Len(s)) = suf

\* as CorrectEndpoint, but "/message" is appended whatever the endpoint
\* ends with
CorrectEndpoint_AlwaysAppends(e) == e \o MessageSuffix

\* lines 155-163: the endpoint after the correction
CorrectEndpoint(e) ==
    IF ~HasSuffix(e, MessageSuffix)
    THEN LET toAdd == IF HasSuffix(e, <<Slash>>) THEN <<"message">>
                      ELSE MessageSuffix
         IN  e \o toAdd
    ELSE e

\* url.ParseRequestURI: the text is taken as the URI of a request, so it has
\* to start with a slash, and all of it is then path, or with a scheme
ParseRequestURI(e) == e # <<>> /\ e[1] \in {Slash, "http:"}

\* url.Parse inside http.NewRequest: two leading slashes open an authority,
\* and a host with an unclosed bracket is rejected
NewRequestAccepts(e) == \A i \in DOMAIN e : e[i] # "[bad"

\* the bridge before main() has built it
NotStarted ==
    [debug |-> FALSE, dispatchErrors |-> FALSE, extendedDetails |-> FALSE,
     defaultPriority |-> DefaultPriorityFlag, gotifyToken |-> "",
     endpointOK |-> FALSE, timeout |-> Int64(0)]

\* main() inside server.ListenAndServe() with the bridge c
Listening(c) ==
    [at |-> "listening", env |-> c.gotifyToken, flag |-> <<>>,
     timeout |-> c.timeout, clientTimeout |-> Int64(0),
     gotifyToken |-> c.gotifyToken,
     gotifyEndpoint |-> IF c.endpointOK THEN EpDefault
                        ELSE CorrectEndpoint(EpBracket),
     exit |-> 0]

\* lines 135-199: the state of the process once main() listens
Started(C) ==
    /\ cfg \in C
    /\ metrics = [k \in MetricNames |-> 0]
    /\ pc = "idle"
    /\ body = EmptyBody
    /\ nAlerts = 0
    /\ idx = 0
    /\ l = InitLocals
    /\ hist = <<>>
    /\ cur = NoAlert
    /\ resp = NoResponse
    /\ m0 = metrics
    /\ g = [h \in Handlers |-> Idle]
    /\ scraper = [at |-> "idle", seen |-> 0]
    /\ hashWriting = FALSE
    /\ alive = TRUE
    /\ boot = Listening(cfg)

Init == Started(Configs)

\* lines 206-262 and 459-465: the handler up to the loop, and the whole
\* handler for a request without a body or with a body that does not parse
Receive(b, appToken, n) ==
    /\ pc = "idle"
    /\ m0' = metrics
    /\ body' = b
    /\ idx' = 0
    /\ hist' = <<>>
    /\ cur' = NoAlert
    /\ LET l1 == [InitLocals EXCEPT !.token = ChooseToken(cfg, appToken)]
           m1 == Inc(metrics, "requests_received")
           u == Unmarshal(b)
           f == ParseFailure(u.err, [l |-> l1, metrics |-> m1])
       IN  IF b # EmptyBody
           THEN IF ~u.ok
                THEN /\ resp' = f.resp
                     /\ metrics' = f.metrics
                     /\ l' = l1
                     /\ nAlerts' = 0
                     /\ pc' = "done"
                ELSE /\ resp' = NoResponse
                     /\ metrics' = m1
                     /\ l' = l1
                     /\ nAlerts' = n
                     /\ pc' = "loop"
           ELSE /\ l' = NoContent(l1)
                /\ resp' = HttpError(NoContent(l1).text, NoContent(l1).respCode)
                /\ metrics' = m1
                /\ nAlerts' = 0
                /\ pc' = "done"
    /\ UNCHANGED cfg

\* lines 450-457
NotProceeding(c, st) ==
    IF c.debug
    THEN [l |-> [st.l EXCEPT !.respCode = StatusBadRequest,
                             !.text = <<<<"Incomplete request">>>>],
          metrics |-> Inc(st.metrics, "alerts_invalid")]
    ELSE st

\* as AfterDo, but a POST that failed is made a second time
AfterDo_Retries(i, o, st) ==
    IF o.err
    THEN [l |-> [st.l EXCEPT !.respCode = StatusInternalServerError,
                             !.text = Append(@, <<"dial error">>)],
          metrics |-> Inc(Inc(st.metrics, "alerts_failed"), "alerts_failed")]
    ELSE IF o.status # 200
    THEN [l |-> [st.l EXCEPT !.respCode = o.status,
                             !.text = Append(@, <<"Gotify Error: ", ToString(o.status)>>)],
          metrics |-> Inc(st.metrics, "alerts_failed")]
    ELSE [l |-> [st.l EXCEPT !.text = Append(@, <<"Message ", ToString(i), " dispatched">>)],
          metrics |-> Inc(st.metrics, "alerts_processed")]

\* as AfterDo, but a delivered alert puts the status back to 200
AfterDo_ResetsStatus(i, o, st) ==
    IF o.err
    THEN [l |-> [st.l EXCEPT !.respCode = StatusInternalServerError,
                             !.text = Append(@, <<"dial error">>)],
          metrics |-> Inc(st.metrics, "alerts_failed")]
    ELSE IF o.status # 200
    THEN [l |-> [st.l EXCEPT !.respCode = o.status,
                             !.text = Append(@, <<"Gotify Error: ", ToString(o.status)>>)],
          metrics |-> Inc(st.metrics, "alerts_failed")]
    ELSE [l |-> [st.l EXCEPT !.respCode = StatusOK,
                             !.text = Append(@, <<"Message ", ToString(i), " dispatched">>)],
          metrics |-> Inc(st.metrics, "alerts_processed")]

\* as AfterDo, but an answer other than 200 leaves the status of the
\* response alone
AfterDo_KeepsStatus(i, o, st) ==
    IF o.err
    THEN [l |-> [st.l EXCEPT !.respCode = StatusInternalServerError,
                             !.text = Append(@, <<"dial error">>)],
          metrics |-> Inc(st.metrics, "alerts_failed")]
    ELSE IF o.status # 200
    THEN [l |-> [st.l EXCEPT !.text = Append(@, <<"Gotify Error: ", ToString(o.status)>>)],
          metrics |-> Inc(st.metrics, "alerts_failed")]
    ELSE [l |-> [st.l EXCEPT !.text = Append(@, <<"Message ", ToString(i), " dispatched">>)],
          metrics |-> Inc(st.metrics, "alerts_processed")]

\* lines 425-449: st is the locals and the metrics, o the outcome of client.Do
AfterDo(i, o, st) ==
    IF o.err
    THEN [l |-> [st.l EXCEPT !.respCode = StatusInternalServerError,
                             !.text = Append(@, <<"dial error">>)],
          metrics |-> Inc(st.metrics, "alerts_failed")]
    ELSE IF o.status # 200
    THEN [l |-> [st.l EXCEPT !.respCode = o.status,
                             !.text = Append(@, <<"Gotify Error: ", ToString(o.status)>>)],
          metrics |-> Inc(st.metrics, "alerts_failed")]
    ELSE [l |-> [st.l EXCEPT !.text = Append(@, <<"Message ", ToString(i), " dispatched">>)],
          metrics |-> Inc(st.metrics, "alerts_processed")]

\* lines 415-421: http.NewRequest rejects the endpoint
NewRequestFailure(st) ==
    [resp |-> HttpError(<<<<"Internal Server Error">>>>, StatusInternalServerError),
     metrics |-> Inc(st.metrics, "alerts_failed")]

\* lines 400-423: the request handed to client.Do
Outbound(loc) ==
    [sent |-> TRUE, title |-> loc.title, message |-> loc.message,
     priority |-> loc.priority, extras |-> loc.extras, key |-> loc.token]

(***************************************************************************)
(* What the handler is observed to do with an alert: the entries of hist.  *)
(***************************************************************************)
LacksAnnotation(alert) ==
    \/ titleAnnotation \notin DOMAIN alert.Annotations
    \/ messageAnnotation \notin DOMAIN alert.Annotations

TitleFails(alert, loc) ==
    \/ titleAnnotation \notin DOMAIN alert.Annotations
    \/ ~renderTemplate(alert.Annotations[titleAnnotation], alert,
                       ResolveExternalURL(alert, loc).externalURL).ok

MessageFails(alert, loc) ==
    \/ messageAnnotation \notin DOMAIN alert.Annotations
    \/ ~renderTemplate(alert.Annotations[messageAnnotation], alert,
                       ResolveExternalURL(alert, loc).externalURL).ok

Observed(alert, loc, t, posted, out) ==
    [lacks |-> LacksAnnotation(alert),
     fails |-> TitleFails(alert, loc) \/ MessageFails(alert, loc),
     proceed |-> t.proceed, posted |-> posted, out |-> out]

\* lines 264-458: one iteration of the loop over notification.Alerts
ProcessAlert(alert, o) ==
    /\ pc = "loop"
    /\ idx < nAlerts
    /\ LET m1 == Inc(metrics, "alerts_received")
           t == Transform(cfg, alert, body, l)
       IN  IF t.panicked
           THEN \* the panic unwinds handleCall; net/http recovers it and
                \* closes the connection without a response
                /\ pc' = "panicked"
                /\ l' = t
                /\ metrics' = m1
                /\ resp' = NoResponse
                /\ cur' = [alert |-> alert, post |-> NoPost]
                /\ hist' = Append(hist, Observed(alert, l, t, FALSE, "panic"))
           ELSE IF t.proceed
           THEN IF ~cfg.endpointOK
                THEN LET f == NewRequestFailure([l |-> t, metrics |-> m1])
                     IN  /\ pc' = "done"
                         /\ l' = t
                         /\ metrics' = f.metrics
                         /\ resp' = f.resp
                         /\ cur' = [alert |-> alert, post |-> NoPost]
                         /\ hist' = Append(hist, Observed(alert, l, t, FALSE, "newrequest"))
                ELSE LET a == AfterDo(idx, o, [l |-> t, metrics |-> m1])
                     IN  /\ pc' = "loop"
                         /\ l' = a.l
                         /\ metrics' = a.metrics
                         /\ resp' = NoResponse
                         /\ cur' = [alert |-> alert, post |-> Outbound(t)]
                         /\ hist' = Append(hist, Observed(alert, l, t, TRUE,
                                IF o.err THEN "error"
                                ELSE IF o.status = 200 THEN "200" ELSE "non200"))
           ELSE LET a == NotProceeding(cfg, [l |-> t, metrics |-> m1])
                IN  /\ pc' = "loop"
                    /\ l' = a.l
                    /\ metrics' = a.metrics
                    /\ resp' = NoResponse
                    /\ cur' = [alert |-> alert, post |-> NoPost]
                    /\ hist' = Append(hist, Observed(alert, l, t, FALSE, "none"))
    /\ idx' = idx + 1
    /\ UNCHANGED <<cfg, body, nAlerts, m0>>

\* lines 464-465
Respond ==
    /\ pc = "loop"
    /\ idx = nAlerts
    /\ resp' = HttpError(l.text, l.respCode)
    /\ pc' = "done"
    /\ UNCHANGED <<cfg, metrics, body, nAlerts, idx, l, hist, cur, m0>>

(***************************************************************************)
(* The same handler as goroutines of the server.  net/http runs handleCall *)
(* and the metrics handler each in the goroutine of its connection; the    *)
(* metrics map is shared and unsynchronised.  An increment metrics[k]++ is *)
(* a call of the runtime's mapassign, which raises the map's writing flag  *)
(* while it runs, followed by a load and a store through the slot it       *)
(* returns; ranging over the map checks the flag at every step.  A         *)
(* goroutine that finds the flag as another one left it stops the whole    *)
(* process (fatal error: concurrent map writes / concurrent map iteration  *)
(* and map write), which no recover() catches.  The accesses race, so the  *)
(* flag may also go unnoticed.                                             *)
(***************************************************************************)
\* the flags left at their defaults, but for --debug
RaceConfigs ==
    {c \in Configs : ~c.dispatchErrors /\ ~c.extendedDetails /\ c.endpointOK}

InitRace == Started(RaceConfigs)

\* the goroutine starts metrics[k]++ and goes on at `then` afterwards
StartInc(r, k, then) == [r EXCEPT !.at = "assign", !.key = k, !.then = then]

\* the counter a step of the handler increments: the one that differs
KeyIncremented(before, after) ==
    IF before = after THEN ""
    ELSE CHOOSE k \in MetricNames : before[k] # after[k]

\* line 213
Arrive(h) ==
    /\ alive
    /\ UNCHANGED boot
    /\ g[h].at = "idle"
    /\ g' = [g EXCEPT ![h] = StartInc(@, "requests_received", "body")]
    /\ UNCHANGED <<hvars, scraper, hashWriting, alive>>

\* mapassign: entry check of the flag, then the flag is flipped
MapAssignEnter(h) ==
    /\ alive
    /\ UNCHANGED boot
    /\ g[h].at = "assign"
    /\ \/ /\ hashWriting
          /\ alive' = FALSE
          /\ UNCHANGED <<g, hashWriting>>
       \/ /\ hashWriting' = ~hashWriting
          /\ g' = [g EXCEPT ![h].at = "inside"]
          /\ UNCHANGED alive
    /\ UNCHANGED <<hvars, scraper>>

\* mapassign: exit check of the flag, then the flag is cleared
MapAssignLeave(h) ==
    /\ alive
    /\ UNCHANGED boot
    /\ g[h].at = "inside"
    /\ \/ /\ ~hashWriting
          /\ alive' = FALSE
          /\ UNCHANGED <<g, hashWriting>>
       \/ /\ hashWriting' = FALSE
          /\ g' = [g EXCEPT ![h].at = "load"]
          /\ UNCHANGED alive
    /\ UNCHANGED <<hvars, scraper>>

\* the load of metrics[k]++
Load(h) ==
    /\ alive
    /\ UNCHANGED boot
    /\ g[h].at = "load"
    /\ g' = [g EXCEPT ![h].at = "store", ![h].tmp = metrics[g[h].key]]
    /\ UNCHANGED <<hvars, scraper, hashWriting, alive>>

\* the store of metrics[k]++
Store(h) ==
    /\ alive
    /\ UNCHANGED boot
    /\ g[h].at = "store"
    /\ metrics' = [metrics EXCEPT ![g[h].key] = g[h].tmp + 1]
    /\ g' = [g EXCEPT ![h] =
               IF g[h].then = "exit" THEN Exited
               ELSE [g[h] EXCEPT !.at = g[h].then, !.key = "", !.tmp = 0]]
    /\ UNCHANGED <<cfg, pc, body, nAlerts, idx, l, hist, cur, resp, m0,
                   scraper, hashWriting, alive>>

\* lines 229-262 and 459-465 of the goroutine
ReadBody(h, b, n) ==
    /\ alive
    /\ UNCHANGED boot
    /\ g[h].at = "body"
    /\ g' = [g EXCEPT ![h] =
               IF b = EmptyBody THEN Exited
               ELSE IF ~Unmarshal(b).ok
               THEN StartInc(@, KeyIncremented(metrics,
                        ParseFailure(Unmarshal(b).err,
                                     [l |-> InitLocals, metrics |-> metrics]).metrics),
                        "exit")
               ELSE [@ EXCEPT !.at = "next", !.left = n]]
    /\ UNCHANGED <<hvars, scraper, hashWriting, alive>>

\* lines 264 and 271, or lines 464-465 once the alerts are through
TakeAlert(h) ==
    /\ alive
    /\ UNCHANGED boot
    /\ g[h].at = "next"
    /\ g' = [g EXCEPT ![h] =
               IF @.left > 0
               THEN StartInc([g[h] EXCEPT !.left = g[h].left - 1],
                             "alerts_received", "alert")
               ELSE Exited]
    /\ UNCHANGED <<hvars, scraper, hashWriting, alive>>

\* lines 276-457 of the goroutine: the transform, the POST and the counter of
\* the outcome
Dispatch(h, alert, o) ==
    /\ alive
    /\ UNCHANGED boot
    /\ g[h].at = "alert"
    /\ LET t == Transform(cfg, alert, GoodJSON, InitLocals)
           st == [l |-> t, metrics |-> metrics]
       IN  g' = [g EXCEPT ![h] =
                   IF t.panicked THEN Exited
                   ELSE IF ~t.proceed
                   THEN LET k == KeyIncremented(metrics, NotProceeding(cfg, st).metrics)
                        IN  IF k = "" THEN [@ EXCEPT !.at = "next"]
                            ELSE StartInc(@, k, "next")
                   ELSE IF ~cfg.endpointOK
                   THEN StartInc(@, KeyIncremented(metrics, NewRequestFailure(st).metrics),
                                 "exit")
                   ELSE StartInc(@, KeyIncremented(metrics, AfterDo(0, o, st).metrics),
                                 "next")]
    /\ UNCHANGED <<hvars, scraper, hashWriting, alive>>

\* Collect, the range over *c.metrics: one step of the iteration
CollectNext ==
    /\ alive
    /\ UNCHANGED boot
    /\ scraper.at \in {"idle", "range"}
    /\ \/ /\ hashWriting
          /\ alive' = FALSE
          /\ UNCHANGED scraper
       \/ /\ scraper' = IF scraper.seen = Cardinality(MetricNames)
                        THEN [at |-> "health", seen |-> 0]
                        ELSE [at |-> "range", seen |-> scraper.seen + 1]
          /\ UNCHANGED alive
    /\ UNCHANGED <<hvars, g, hashWriting>>

\* Collect, the health probe and the three gauges of it
CollectHealth ==
    /\ alive
    /\ UNCHANGED boot
    /\ scraper.at = "health"
    /\ scraper' = [at |-> "idle", seen |-> 0]
    /\ UNCHANGED <<hvars, g, hashWriting, alive>>

NextRace ==
    \/ \E h \in Handlers : Arrive(h)
    \/ \E h \in Handlers : MapAssignEnter(h)
    \/ \E h \in Handlers : MapAssignLeave(h)
    \/ \E h \in Handlers : Load(h)
    \/ \E h \in Handlers : Store(h)
    \/ \E h \in Handlers, b \in Bodies, n \in 0..1 : ReadBody(h, b, n)
    \/ \E h \in Handlers : TakeAlert(h)
    \/ \E h \in Handlers, alert \in BatchAlerts, o \in DownstreamOutcomes :
          Dispatch(h, alert, o)
    \/ CollectNext
    \/ CollectHealth

SpecRace == InitRace /\ [][NextRace]_vars

(***************************************************************************)
(* The goroutines of the server again, one step per alert: what each       *)
(* request does with its own locals while others are being served.         *)
(***************************************************************************)
\* lines 206-262 and 459-465: the request arrives with its query parameter
\* and its body
Accept(h, appToken, b, n) ==
    /\ alive
    /\ UNCHANGED boot
    /\ g[h].at = "idle"
    /\ LET m1 == Inc(metrics, "requests_received")
           u == Unmarshal(b)
           loc == [InitLocals EXCEPT !.token = ChooseToken(cfg, appToken)]
       IN  /\ metrics' = IF b # EmptyBody /\ ~u.ok
                         THEN ParseFailure(u.err, [l |-> loc, metrics |-> m1]).metrics
                         ELSE m1
           /\ g' = [g EXCEPT ![h] =
                      IF b = EmptyBody \/ ~u.ok THEN Exited
                      ELSE [@ EXCEPT !.at = "next", !.left = n,
                                     !.appToken = appToken, !.token = loc.token]]
    /\ UNCHANGED <<cfg, pc, body, nAlerts, idx, l, hist, cur, resp, m0,
                   scraper, hashWriting, alive>>

\* lines 264-458: one iteration of the loop in the goroutine
Serve(h, alert, o) ==
    /\ alive
    /\ UNCHANGED boot
    /\ g[h].at = "next"
    /\ g[h].left > 0
    /\ LET m1 == Inc(metrics, "alerts_received")
           t == Transform(cfg, alert, GoodJSON,
                          [InitLocals EXCEPT !.token = g[h].token])
           st == [l |-> t, metrics |-> m1]
       IN  IF t.panicked
           THEN /\ metrics' = m1
                /\ g' = [g EXCEPT ![h] = Exited]
           ELSE IF ~t.proceed
           THEN /\ metrics' = NotProceeding(cfg, st).metrics
                /\ g' = [g EXCEPT ![h].left = @ - 1]
           ELSE IF ~cfg.endpointOK
           THEN /\ metrics' = NewRequestFailure(st).metrics
                /\ g' = [g EXCEPT ![h] = Exited]
           ELSE /\ metrics' = AfterDo(0, o, st).metrics
                /\ g' = [g EXCEPT ![h].left = @ - 1,
                                  ![h].sent = Outbound(t).key]
    /\ UNCHANGED <<cfg, pc, body, nAlerts, idx, l, hist, cur, resp, m0,
                   scraper, hashWriting, alive>>

\* lines 459-465: the loop is through and the response is written
Return(h) ==
    /\ alive
    /\ UNCHANGED boot
    /\ g[h].at = "next"
    /\ g[h].left = 0
    /\ g' = [g EXCEPT ![h] = Exited]
    /\ UNCHANGED <<hvars, scraper, hashWriting, alive>>

NextServe ==
    \/ \E h \in Handlers, appToken \in QueryTokens, b \in Bodies, n \in 0..1 :
          Accept(h, appToken, b, n)
    \/ \E h \in Handlers, alert \in BatchAlerts, o \in DownstreamOutcomes :
          Serve(h, alert, o)
    \/ \E h \in Handlers : Return(h)

SpecServe == Init /\ [][NextServe]_vars

(***************************************************************************)
(* main() from its first line to server.ListenAndServe().                  *)
(***************************************************************************)
InitStart ==
    /\ cfg = NotStarted
    /\ metrics = [k \in MetricNames |-> 0]
    /\ pc = "idle"
    /\ body = EmptyBody
    /\ nAlerts = 0
    /\ idx = 0
    /\ l = InitLocals
    /\ hist = <<>>
    /\ cur = NoAlert
    /\ resp = NoResponse
    /\ m0 = metrics
    /\ g = [h \in Handlers |-> Idle]
    /\ scraper = [at |-> "idle", seen |-> 0]
    /\ hashWriting = FALSE
    /\ alive = TRUE
    /\ boot \in [at : {"token"}, env : EnvTokens, flag : EndpointFlags,
                  timeout : TimeoutFlags, clientTimeout : {Int64(0)},
                  gotifyToken : {""}, gotifyEndpoint : {<<>>}, exit : {0}]

\* os.Exit(1)
Exit1(b) == [b EXCEPT !.at = "exited", !.exit = 1]

\* lines 146-151
ReadToken ==
    /\ boot.at = "token"
    /\ LET fromEnv == boot.env
           gotifyToken == "1"
       IN  boot' = IF gotifyToken = "" THEN Exit1(boot)
                   ELSE [boot EXCEPT !.at = "endpoint", !.gotifyToken = gotifyToken]
    /\ UNCHANGED <<hvars, g, scraper, hashWriting, alive>>

\* lines 155-163
FixEndpoint ==
    /\ boot.at = "endpoint"
    /\ boot' = [boot EXCEPT !.at = "validate",
                            !.gotifyEndpoint = CorrectEndpoint(boot.flag)]
    /\ UNCHANGED <<hvars, g, scraper, hashWriting, alive>>

\* lines 165-169
ValidateEndpoint ==
    /\ boot.at = "validate"
    /\ boot' = IF ~ParseRequestURI(boot.gotifyEndpoint) THEN Exit1(boot)
               ELSE [boot EXCEPT !.at = "listen"]
    /\ UNCHANGED <<hvars, g, scraper, hashWriting, alive>>

\* lines 171-203: the bridge is built from the flags c and the server
\* listens, or fails to
Listen(c, bound) ==
    /\ boot.at = "listen"
    /\ c.gotifyToken = boot.gotifyToken
    /\ c.endpointOK = NewRequestAccepts(boot.gotifyEndpoint)
    /\ cfg' = [c EXCEPT !.timeout = boot.timeout]
    /\ boot' = IF bound THEN [boot EXCEPT !.at = "listening"] ELSE Exit1(boot)
    /\ UNCHANGED <<metrics, pc, body, nAlerts, idx, l, hist, cur, resp, m0,
                   g, scraper, hashWriting, alive>>

\* Collect, the client of the health probe, once the server listens
HealthClient ==
    /\ boot.at = "listening"
    /\ boot' = [boot EXCEPT !.at = "probing", !.clientTimeout = ClientTimeout(cfg)]
    /\ UNCHANGED <<hvars, g, scraper, hashWriting, alive>>

NextStart ==
    \/ HealthClient
    \/ ReadToken
    \/ FixEndpoint
    \/ ValidateEndpoint
    \/ \E c \in Configs, bound \in BOOLEAN : Listen(c, bound)

SpecStart == InitStart /\ [][NextStart]_vars

(***************************************************************************)
(* The handler of main.go, handle_call: no templates, no token parameter,  *)
(* no counters.                                                            *)
(***************************************************************************)
title_annotation == "description"
message_annotation == "summary"
priority_annotation == "priority"

\* the bridge struct of main.go has neither of the two later flags
OldConfigs == {c \in Configs : ~c.dispatchErrors /\ ~c.extendedDetails}

\* the Alert of main.go keeps the annotations only
OldAlerts ==
    {a \in Alerts : /\ a.Status = "firing" /\ a.GeneratorURL = GenHTTP
                    /\ a.StartsAt = StartsAtLong}

\* lines 172-177 and 185-190: a required annotation is missing
handle_call_missing(name, loc) ==
    [loc EXCEPT !.proceed = FALSE, !.text = <<<<"Missing annotation: ", name>>>>]

\* lines 190-203: the parsed value is taken when Atoi returns an error
handle_call_priority(alert, loc) ==
    IF priority_annotation \in DOMAIN alert.Annotations
    THEN LET tmp == Atoi(alert.Annotations[priority_annotation])
         IN  IF ~tmp.ok THEN [loc EXCEPT !.priority = tmp.n] ELSE loc
    ELSE loc

\* lines 159-203
handle_call_transform(c, alert, loc) ==
    LET l0 == [loc EXCEPT !.proceed = TRUE, !.title = <<>>, !.message = <<>>,
                          !.priority = c.defaultPriority]
        l1 == IF title_annotation \in DOMAIN alert.Annotations
              THEN [l0 EXCEPT !.title = alert.Annotations[title_annotation]]
              ELSE handle_call_missing(title_annotation, l0)
        l2 == IF message_annotation \in DOMAIN alert.Annotations
              THEN [l1 EXCEPT !.message = alert.Annotations[message_annotation]]
              ELSE handle_call_missing(message_annotation, l1)
    IN  handle_call_priority(alert, l2)

\* lines 117-158 and 264-269: the handler up to the loop; the whole handler
\* for a request without a body; log.Fatalf, which exits the process, for a
\* body that does not parse
handle_call_begin(b, n) ==
    /\ alive
    /\ pc = "idle"
    /\ m0' = metrics
    /\ body' = b
    /\ idx' = 0
    /\ hist' = <<>>
    /\ cur' = NoAlert
    /\ IF b = EmptyBody
       THEN /\ l' = [InitLocals EXCEPT !.text = <<<<"No content sent">>>>]
            /\ resp' = HttpError(l'.text, l'.respCode)
            /\ nAlerts' = 0
            /\ pc' = "done"
            /\ alive' = alive
       ELSE IF ~Unmarshal(b).ok
       THEN /\ l' = InitLocals
            /\ resp' = NoResponse
            /\ nAlerts' = 0
            /\ pc' = "exited"
            /\ alive' = FALSE
       ELSE /\ l' = InitLocals
            /\ resp' = NoResponse
            /\ nAlerts' = n
            /\ pc' = "loop"
            /\ alive' = alive
    /\ UNCHANGED <<cfg, metrics, g, scraper, hashWriting, boot>>

\* lines 159-262: one iteration of the loop of handle_call
handle_call_alert(alert, o) ==
    /\ alive
    /\ pc = "loop"
    /\ idx < nAlerts
    /\ LET t == handle_call_transform(cfg, alert, l)
           post == [sent |-> TRUE, title |-> t.title, message |-> t.message,
                    priority |-> t.priority, extras |-> {}, key |-> cfg.gotifyToken]
           seen(posted, out) ==
               [lacks |-> LacksAnnotation(alert), fails |-> LacksAnnotation(alert),
                proceed |-> t.proceed, posted |-> posted, out |-> out]
       IN  IF t.proceed
           THEN IF ~cfg.endpointOK
                THEN /\ pc' = "done"
                     /\ l' = t
                     /\ resp' = HttpError(<<<<"Internal Server Error">>>>,
                                          StatusInternalServerError)
                     /\ cur' = [alert |-> alert, post |-> NoPost]
                     /\ hist' = Append(hist, seen(FALSE, "newrequest"))
                ELSE /\ pc' = "loop"
                     /\ l' = IF o.err
                             THEN [t EXCEPT !.respCode = StatusInternalServerError,
                                            !.text = Append(@, <<"dial error">>)]
                             ELSE IF o.status # 200
                             THEN [t EXCEPT !.respCode = o.status,
                                            !.text = Append(@, <<"Gotify Error: ", ToString(o.status)>>)]
                             ELSE [t EXCEPT !.text = Append(@, <<"Message ", ToString(idx), " dispatched">>)]
                     /\ resp' = NoResponse
                     /\ cur' = [alert |-> alert, post |-> post]
                     /\ hist' = Append(hist, seen(TRUE,
                            IF o.err THEN "error"
                            ELSE IF o.status = 200 THEN "200" ELSE "non200"))
           ELSE /\ pc' = "loop"
                /\ l' = IF cfg.debug
                        THEN [t EXCEPT !.respCode = StatusBadRequest,
                                       !.text = <<<<"Incomplete request">>>>]
                        ELSE t
                /\ resp' = NoResponse
                /\ cur' = [alert |-> alert, post |-> NoPost]
                /\ hist' = Append(hist, seen(FALSE, "none"))
    /\ idx' = idx + 1
    /\ UNCHANGED <<cfg, metrics, body, nAlerts, m0, rvars>>

\* lines 268-270: the loop is through
handle_call_end ==
    /\ alive
    /\ pc = "loop"
    /\ idx = nAlerts
    /\ resp' = HttpError(l.text, l.respCode)
    /\ pc' = "done"
    /\ UNCHANGED <<cfg, metrics, body, nAlerts, idx, l, hist, cur, m0, rvars>>

NextOld ==
    \/ \E b \in Bodies, n \in 0..1 : handle_call_begin(b, n)
    \/ \E alert \in OldAlerts, o \in DownstreamOutcomes : handle_call_alert(alert, o)
    \/ handle_call_end

SpecOld == Started(OldConfigs) /\ [][NextOld]_vars

(***************************************************************************)
(* The handler on alerts whose templates call the functions the bridge     *)
(* does not support.                                                       *)
(***************************************************************************)
DeniedFunctions == {Denylist[k] : k \in 1..Len(Denylist)}

CloseCall == <<" ", "x", "}", "}">>

\* one call of each function in both spellings, and texts with two calls
\* where the later one comes first in the switch
DeniedTemplates ==
    {open \o f \o CloseCall : open \in {OpenTight, OpenSpaced}, f \in DeniedFunctions}
    \cup {TplPlain \o OpenTight \o FnSortByLabel \o CloseCall \o OpenSpaced \o FnQuery \o CloseCall,
          OpenSpaced \o FnValue \o CloseCall \o TplPlain \o OpenTight \o FnFirst \o CloseCall}

RenderAlerts ==
    {a \in [Annotations : [{titleAnnotation, messageAnnotation} ->
                              DeniedTemplates \cup {TplPlain}],
            Status : {"firing"}, GeneratorURL : {GenHTTP},
            StartsAt : {StartsAtShort, StartsAtLong}, ExternalURL : {""}] :
        \E k \in DOMAIN a.Annotations :
            /\ a.Annotations[k] \in DeniedTemplates
            /\ \A j \in DOMAIN a.Annotations \ {k} : a.Annotations[j] = TplPlain}

NextRender ==
    \/ \E appToken \in QueryTokens, n \in 0..1 :
          Receive(GoodJSON, appToken, n) /\ UNCHANGED rvars
    \/ \E alert \in RenderAlerts, o \in DownstreamOutcomes :
          ProcessAlert(alert, o) /\ UNCHANGED rvars
    \/ Respond /\ UNCHANGED rvars

SpecRender == Init /\ [][NextRender]_vars

\* the process through its first request, with batches of alerts
Next ==
    \/ \E b \in Bodies, appToken \in QueryTokens, n \in 0..MaxAlerts :
          Receive(b, appToken, n) /\ UNCHANGED rvars
    \/ \E alert \in BatchAlerts, o \in DownstreamOutcomes :
          ProcessAlert(alert, o) /\ UNCHANGED rvars
    \/ Respond /\ UNCHANGED rvars

Spec == Init /\ [][Next]_vars

\* the process through its first request, of one alert of any shape
NextOne ==
    \/ \E b \in Bodies, appToken \in QueryTokens, n \in 0..1 :
          Receive(b, appToken, n) /\ UNCHANGED rvars
    \/ \E alert \in Alerts, o \in DownstreamOutcomes :
          ProcessAlert(alert, o) /\ UNCHANGED rvars
    \/ Respond /\ UNCHANGED rvars

SpecOne == Init /\ [][NextOne]_vars

(***************************************************************************)
(* Properties.                                                             *)
(***************************************************************************)
Ended == pc \in {"done", "panicked"}
Parsed == pc # "idle" /\ body # EmptyBody /\ Unmarshal(body).ok
Delta(k) == metrics[k] - m0[k]
WithOutcome(outs) == {i \in DOMAIN hist : hist[i].out \in outs}
SuccessNote(i) == <<"Message ", ToString(i - 1), " dispatched">>

\* C1: once a request whose body parsed has ended, all its N alerts were
\* taken (alerts_received grew by N) and a response was written, whatever
\* happened to the earlier alerts of the batch.
C1_EveryAlertIsProcessed ==
    (Ended /\ Parsed) =>
        /\ Delta("alerts_received") = nAlerts
        /\ Len(hist) = nAlerts
        /\ pc = "done"
        /\ resp.code # 0

\* C2: the body of the response to a request of N alerts has exactly N
\* lines, line i being the success note of alert i if it was delivered with
\* 200 and an error line otherwise (stated for the requests whose loop took
\* all N alerts).
C2_OneLinePerAlert ==
    (pc = "done" /\ Parsed /\ Len(hist) = nAlerts
       /\ WithOutcome({"newrequest"}) = {}) =>
        /\ Len(resp.body) = nAlerts
        /\ \A i \in 1..nAlerts :
              (hist[i].out = "200") <=> (resp.body[i] = SuccessNote(i))

AllOthersDelivered(i) ==
    /\ Len(hist) = nAlerts
    /\ \A j \in DOMAIN hist \ {i} : hist[j].out = "200"

\* C3: without dispatch-errors, an alert lacking the title or the message
\* annotation ends with proceed=false and without a POST, and the request
\* is answered 400 when all its other alerts were delivered with 200.
C3_MissingAnnotationIs400 ==
    ~cfg.dispatchErrors =>
        \A i \in DOMAIN hist :
            hist[i].lacks =>
                /\ ~hist[i].proceed
                /\ ~hist[i].posted
                /\ (Ended /\ AllOthersDelivered(i)) => resp.code = StatusBadRequest

\* C4: with dispatch-errors, an alert whose title or message step failed
\* ends with proceed=true, its POST is attempted, and the title sent is
\* exactly the error title.
C4_DiagnosticIsDispatched ==
    (cfg.dispatchErrors /\ Len(hist) = 1 /\ hist[1].fails) =>
        /\ hist[1].proceed
        /\ hist[1].posted \/ hist[1].out = "newrequest"
        /\ cur.post.sent => cur.post.title = ErrorTitle

IsDiagnostic(m, b) ==
    /\ HasPrefix(m, <<"    Error: ">>)
    /\ Contains(m, <<b>>)

\* C5: with dispatch-errors, the message POSTed for an alert whose title or
\* message step failed is the diagnostic text with the error and the raw
\* body of the request.
C5_DiagnosticMessage ==
    (cfg.dispatchErrors /\ Len(hist) = 1 /\ hist[1].fails /\ cur.post.sent) =>
        IsDiagnostic(cur.post.message, body)

\* C6: over a request, alerts_invalid grows by the number of alerts whose
\* transform ended with proceed=false and alerts_processed by the number of
\* alerts delivered with 200.
C6_CountersMatchOutcomes ==
    (Ended /\ Parsed) =>
        /\ Delta("alerts_invalid") = Cardinality(WithOutcome({"none"}))
        /\ Delta("alerts_processed") = Cardinality(WithOutcome({"200"}))

\* C7: once the downstream answered an alert of the request with a status
\* other than 200, or its POST failed, the status the handler holds is not
\* 200 for the rest of the loop and the response written is not a 200.
C7_FailureIsNot200 ==
    (WithOutcome({"non200", "error", "newrequest"}) # {}) =>
        /\ pc = "loop" => l.respCode # StatusOK
        /\ pc = "done" => resp.code \notin {0, StatusOK}
        /\ pc = "panicked" => resp = NoResponse

C7_Witness ==
    /\ pc = "done"
    /\ Len(hist) = 3
    /\ hist[1].out = "non200"
    /\ hist[2].out = "200"
    /\ hist[3].out = "200"
    /\ resp.code = 503

\* C8, as claimed: when an earlier alert of the request recorded a 500 or a
\* mirrored 5xx, a later alert with proceed=false does not lower the status
\* of the response to 400.
C8_WorseStatusIsKept ==
    (pc = "done" /\ Parsed
       /\ \E i, j \in DOMAIN hist :
             /\ i < j
             /\ hist[i].out \in {"error", "non200"}
             /\ hist[j].out = "none") =>
        resp.code >= StatusInternalServerError

NothingRecordedAfter(j) ==
    \A k \in DOMAIN hist : k > j => (hist[k].out = "200" /\ ~hist[k].fails)

\* C8, amended: the 400 of a transform failure replaces whatever status an
\* earlier alert recorded (last writer wins): after an alert with
\* proceed=false the status is 400, and it is the status of the response
\* when every later alert is delivered with 200.
C8_LastWriterWins ==
    \A j \in DOMAIN hist :
        (hist[j].out = "none" /\ NothingRecordedAfter(j)) =>
            /\ l.respCode = StatusBadRequest
            /\ pc = "done" => resp.code = StatusBadRequest

C8_Witness ==
    /\ pc = "done"
    /\ Len(hist) = 3
    /\ hist[1].out = "error"
    /\ hist[2].out = "none"
    /\ hist[3].out = "200"
    /\ resp.code = StatusBadRequest

AlertCounters == {"alerts_received", "alerts_invalid", "alerts_processed", "alerts_failed"}

C10_ProcessKeepsRunning == alive

\* C11: no increment is lost: once all the goroutines that served a webhook
\* request have returned, requests_received has grown by one for each of
\* them.
C11_NoIncrementLost ==
    (alive /\ \A h \in Handlers : g[h] = Exited) =>
        metrics["requests_received"] = MaxHandlers

\* C12: every POST of a request carries in X-Gotify-Key the token parameter
\* of that request when it is not empty and the default token otherwise,
\* whatever the other requests being served carry; the default token stays
\* what it was at startup.
C12_TokenOfTheRequest ==
    /\ cfg.gotifyToken = "1"
    /\ \A h \in Handlers :
          g[h].sent # "" =>
              g[h].sent = (IF g[h].appToken # "" THEN g[h].appToken
                           ELSE cfg.gotifyToken)

C12_Witness ==
    \E h1, h2 \in Handlers :
        /\ g[h1].appToken = "X" /\ g[h1].sent = "X"
        /\ g[h2].at = "next" /\ g[h2].appToken = "" /\ g[h2].sent = "1"

\* C13: the bridge listens only when GOTIFY_TOKEN is set and not empty, and
\* its default token is then the value of GOTIFY_TOKEN.
C13_TokenFromEnvironment ==
    boot.at = "listening" =>
        /\ boot.env # ""
        /\ cfg.gotifyToken = boot.env

\* C14: every alert of a request is taken once and POSTed at most once: an
\* alert whose transform ended with proceed=false is not POSTed, and the
\* outcomes counted (delivered or failed) are one per POST attempted, none
\* being counted again after an error or a non-200 answer.
C14_AtMostOnePost ==
    /\ Len(hist) = idx
    /\ idx <= nAlerts
    /\ \A i \in DOMAIN hist :
          /\ hist[i].posted => hist[i].proceed
          /\ hist[i].posted <=> hist[i].out \in {"200", "non200", "error"}
    /\ Delta("alerts_processed") + Delta("alerts_failed")
          = Cardinality(WithOutcome({"200", "non200", "error", "newrequest"}))

C14_Witness ==
    /\ pc = "done"
    /\ Len(hist) = 3
    /\ hist[1].out = "error"
    /\ hist[2].out = "none"
    /\ hist[3].out = "non200"
    /\ Delta("alerts_failed") = 2

\* C15: the Timeout of the http.Client is the duration given as --timeout.
C15_TimeoutIsTheFlag ==
    boot.at = "probing" =>
        /\ boot.clientTimeout = cfg.timeout
        /\ HasDeadline(boot.clientTimeout)

EndpointCorrected ==
    /\ boot.at \in {"validate", "listen", "listening", "probing", "exited"}
    /\ boot.gotifyEndpoint # <<>>

DoubleSlashes(e) == {i \in 1..(Len(e) - 1) : e[i] = Slash /\ e[i + 1] = Slash}

\* C16: after the correction at startup an endpoint that ended in "/message"
\* is unchanged, one that ended in "/" has "message" appended and any other
\* has "/message" appended; the result ends in "/message", has no double
\* slash the flag did not have, and is left as it is by a second correction.
C16_EndpointCorrection ==
    EndpointCorrected =>
        LET e == boot.flag
            r == boot.gotifyEndpoint
        IN  /\ HasSuffix(e, MessageSuffix) => r = e
            /\ (~HasSuffix(e, MessageSuffix) /\ HasSuffix(e, <<Slash>>))
                   => r = e \o <<"message">>
            /\ (~HasSuffix(e, MessageSuffix) /\ ~HasSuffix(e, <<Slash>>))
                   => r = e \o MessageSuffix
            /\ e \in {EpApp, EpApp \o <<Slash>>} => r = EpApp \o MessageSuffix
            /\ HasSuffix(r, MessageSuffix)
            /\ Cardinality(DoubleSlashes(r)) = Cardinality(DoubleSlashes(e))
            /\ CorrectEndpoint(r) = r

C16_Witness ==
    /\ boot.at = "listening"
    /\ boot.flag = EpApp \o <<Slash>>
    /\ boot.gotifyEndpoint = EpApp \o MessageSuffix

\* C17: a request with an empty body is answered 400 "No content sent"; no
\* alert is taken, nothing is POSTed, and neither requests_invalid nor an
\* alerts_* counter moves.
C17_EmptyBodyIs400 ==
    (pc # "idle" /\ body = EmptyBody) =>
        /\ pc = "done"
        /\ resp = [code |-> StatusBadRequest, body |-> <<<<"No content sent">>>>]
        /\ hist = <<>>
        /\ ~cur.post.sent
        /\ \A k \in AlertCounters \cup {"requests_invalid"} : Delta(k) = 0

\* C20: when the priority annotation of an alert is present and parses as an
\* integer, the notification POSTed for it has that integer as its priority.
C20_ParsedPriorityIsSent ==
    (Len(hist) = 1 /\ cur.post.sent
       /\ priorityAnnotation \in DOMAIN cur.alert.Annotations
       /\ Atoi(cur.alert.Annotations[priorityAnnotation]).ok) =>
        cur.post.priority = Atoi(cur.alert.Annotations[priorityAnnotation]).n

\* C18, as claimed: over a request, requests_received grows by one when the
\* body parses as JSON, and not at all when the body is empty or does not
\* parse.
C18_CountedWhenParsed ==
    pc # "idle" =>
        Delta("requests_received") = (IF Parsed THEN 1 ELSE 0)

\* C18, amended: requests_received grows by exactly one over every request,
\* from the entry of the handler on, whether the body is empty, does not
\* parse, or parses.
C18_CountedOnArrival ==
    /\ pc = "idle" => Delta("requests_received") = 0
    /\ pc # "idle" => Delta("requests_received") = 1

C18_Witness ==
    /\ pc = "done"
    /\ body = EmptyBody
    /\ Delta("requests_received") = 1
    /\ resp.code = StatusBadRequest

UnsupportedError(f) ==
    <<"error in Template: The bridge does not support the function ">> \o f

StatusUnauthorized == 401

\* --metrics_auth_username or $AUTH_USERNAME
MetricsUsers == {"", "admin"}

\* the value of a variable of the environment that holds a password
EnvPasswords == {"", "hunter2"}

\* r.BasicAuth(): no well-formed Authorization header, or <<username, password>>
NoAuthorization == <<>>
Authorizations ==
    {NoAuthorization} \cup ({"admin", "root"} \X {"hunter2", "wrong"})

\* the endpoint main() ends up with
EpProxied ==
    <<"http:", Slash, Slash, "host", Slash, "message", Slash, "app",
      Slash, "message">>
MetricsEndpoints ==
    {CorrectEndpoint(EpDefault), CorrectEndpoint(EpApp \o <<Slash>>), EpProxied}

\* lines 123-133: TRUE when the parent handler is wrapped in basicAuthHandler
basicAuthHandlerBuilder(username, password) ==
    username # "" /\ password # ""

\* lines 100-110, the condition under which h.handler is called
Authorized(auth, username, password) ==
    /\ auth # NoAuthorization
    /\ auth[1] = username
    /\ auth[2] = password

\* strings.TrimSuffix
TrimSuffix(s, suf) ==
    IF HasSuffix(s, suf) THEN SubSeq(s, 1, Len(s) - Len(suf)) ELSE s

\* test.sh line 67
healthEndpoint(e) == TrimSuffix(e, MessageSuffix) \o <<Slash, "health">>

\* The body of the answer of /health: the text is JSON or is not, and holds
\* the members <<key, kind, value>> in the order of the text.  A text that
\* is not JSON can still hold members (a document cut short).
Member(k, kind, v) == <<k, kind, v>>
HealthBodies ==
    {[valid |-> v, members |-> ms] :
        v \in BOOLEAN,
        ms \in {<<>>,
                <<Member("health", "string", "green"),
                  Member("database", "string", "green")>>,
                <<Member("health", "string", "green"),
                  Member("database", "string", "red")>>,
                <<Member("health", "string", "orange"),
                  Member("database", "string", "green")>>,
                <<Member("database", "string", "green")>>,
                <<Member("health", "string", "green"),
                  Member("database", "number", "1")>>,
                <<Member("health", "string", "green"),
                  Member("database", "string", "green"),
                  Member("version", "string", "2.4.0")>>}}

\* client.Get and ioutil.ReadAll: no response, a response whose body could
\* not be read, a response with its body
NoBody == [valid |-> FALSE, members |-> <<>>]
ProbeOutcomes ==
    {[err |-> TRUE, read |-> FALSE, body |-> NoBody],
     [err |-> FALSE, read |-> FALSE, body |-> NoBody]}
    \cup {[err |-> FALSE, read |-> TRUE, body |-> b] : b \in HealthBodies}
NoProbe == [err |-> TRUE, read |-> FALSE, body |-> NoBody]

\* test.sh line 74
DefaultStatus == [k \in {"health", "database"} |-> "error"]

\* the members of a JSON object stored into a map[string]string, in order:
\* a value that is not a string leaves the zero value under its key
RECURSIVE StoreMembers(_, _)
StoreMembers(ms, st) ==
    IF ms = <<>> THEN st
    ELSE LET k == Head(ms)[1]
             v == IF Head(ms)[2] = "string" THEN Head(ms)[3] ELSE ""
         IN  StoreMembers(Tail(ms),
                          [x \in DOMAIN st \cup {k} |->
                              IF x = k THEN v ELSE st[x]])

\* as UnmarshalStatus, but the members are stored before the text is found
\* not to be JSON
UnmarshalStatus_StoresFirst(b, st) == StoreMembers(b.members, st)

\* test.sh line 86, json.Unmarshal(body, &status): the text is validated as
\* a whole before anything is stored
UnmarshalStatus(b, st) ==
    IF b.valid THEN StoreMembers(b.members, st) ELSE st

\* test.sh lines 74-90: the status map after the probe p
StatusAfter(p) ==
    IF p.err \/ ~p.read THEN DefaultStatus
    ELSE UnmarshalStatus(p.body, DefaultStatus)

\* test.sh lines 92-102: the gauge of each key of the status map
HealthGauges(st) == [k \in DOMAIN st |-> IF st[k] = "green" THEN 1 ELSE 0]

\* the goroutine of the metrics path before any request
NotScraped ==
    [at |-> "idle", seen |-> 0, asked |-> FALSE, auth |-> NoAuthorization,
     code |-> 0, collected |-> FALSE, url |-> <<>>, probe |-> NoProbe,
     up |-> 0, health |-> <<>>]

InitMetrics ==
    /\ cfg = NotStarted
    /\ metrics = [k \in MetricNames |-> 0]
    /\ pc = "idle"
    /\ body = EmptyBody
    /\ nAlerts = 0
    /\ idx = 0
    /\ l = InitLocals
    /\ hist = <<>>
    /\ cur = NoAlert
    /\ resp = NoResponse
    /\ m0 = metrics
    /\ g = [h \in Handlers |-> Idle]
    /\ scraper = NotScraped
    /\ hashWriting = FALSE
    /\ alive = TRUE
    /\ boot \in [at : {"password"}, authUsername : MetricsUsers,
                  envAuthPassword : EnvPasswords,
                  envNutPassword : EnvPasswords,
                  authPassword : {""}, protected : {FALSE},
                  gotifyEndpoint : MetricsEndpoints]

\* line 153
ReadPassword ==
    /\ boot.at = "password"
    /\ boot' = [boot EXCEPT !.at = "mux", !.authPassword = boot.envNutPassword]
    /\ UNCHANGED <<hvars, g, scraper, hashWriting, alive>>

\* lines 188-190
RegisterMetrics ==
    /\ boot.at = "mux"
    /\ boot' = [boot EXCEPT
                  !.at = "listening",
                  !.protected = basicAuthHandlerBuilder(boot.authUsername,
                                                        boot.authPassword)]
    /\ UNCHANGED <<hvars, g, scraper, hashWriting, alive>>

\* lines 100-121: a request to the metrics path with the credentials auth
ServeHTTP(auth) ==
    /\ boot.at = "listening"
    /\ scraper.at = "idle"
    /\ scraper' =
          IF boot.protected
             /\ ~Authorized(auth, boot.authUsername, boot.authPassword)
          THEN [NotScraped EXCEPT !.asked = TRUE, !.auth = auth,
                                  !.code = StatusUnauthorized]
          ELSE [NotScraped EXCEPT !.asked = TRUE, !.auth = auth,
                                  !.at = "range", !.collected = TRUE]
    /\ UNCHANGED <<hvars, g, hashWriting, alive, boot>>

\* test.sh lines 48-55: one step of the range over the counters
CollectMetrics ==
    /\ scraper.at = "range"
    /\ scraper' = IF scraper.seen = Cardinality(MetricNames)
                  THEN [scraper EXCEPT !.at = "health"]
                  ELSE [scraper EXCEPT !.seen = scraper.seen + 1]
    /\ UNCHANGED <<hvars, g, hashWriting, alive, boot>>

\* test.sh lines 57-103: the probe with the outcome p, and the gauges of it
Collect(p) ==
    /\ scraper.at = "health"
    /\ scraper' = [scraper EXCEPT
                     !.at = "idle",
                     !.code = StatusOK,
                     !.url = healthEndpoint(boot.gotifyEndpoint),
                     !.probe = p,
                     !.up = IF p.err THEN 0 ELSE 1,
                     !.health = HealthGauges(StatusAfter(p))]
    /\ UNCHANGED <<hvars, g, hashWriting, alive, boot>>

NextMetrics ==
    \/ ReadPassword
    \/ RegisterMetrics
    \/ \E auth \in Authorizations : ServeHTTP(auth)
    \/ CollectMetrics
    \/ \E p \in ProbeOutcomes : Collect(p)

SpecMetrics == InitMetrics /\ [][NextMetrics]_vars

\* C21: when a metrics username and a metrics password are configured
\* ($AUTH_USERNAME and $AUTH_PASSWORD), a request to the metrics path whose
\* Basic-Auth credentials are not exactly these is answered 401 and the
\* collector is not run; when either is not configured the path is served
\* without authentication.
C21_MetricsAuthentication ==
    scraper.asked =>
        LET configured == boot.authUsername # "" /\ boot.envAuthPassword # ""
            matching == scraper.auth = <<boot.authUsername, boot.envAuthPassword>>
        IN  /\ configured /\ ~matching =>
                  /\ scraper.code = StatusUnauthorized
                  /\ ~scraper.collected
            /\ ~configured =>
                  /\ scraper.code # StatusUnauthorized
                  /\ scraper.collected

\* the text is JSON and has the member key: "green"
Reports(b, key) ==
    /\ b.valid
    /\ \E i \in DOMAIN b.members : b.members[i] = Member(key, "string", "green")

\* C22: a scrape probes GET <endpoint without its trailing "/message">/health;
\* gotify_up is 1 exactly when the probe got an HTTP response;
\* gotify_health_health and gotify_health_database are each 1 exactly when
\* the JSON that was read reports "green" for the key, so both are 0 when
\* gotify_up is 0 or the body is not JSON.
C22_HealthGauges ==
    scraper.code = StatusOK =>
        /\ HasSuffix(scraper.url, <<Slash, "health">>)
        /\ SubSeq(scraper.url, 1, Len(scraper.url) - 2) \o MessageSuffix
              = boot.gotifyEndpoint
        /\ scraper.up \in {0, 1}
        /\ scraper.up = 1 <=> ~scraper.probe.err
        /\ \A k \in {"health", "database"} :
              /\ k \in DOMAIN scraper.health
              /\ scraper.health[k] \in {0, 1}
              /\ scraper.health[k] = 1 <=>
                    /\ ~scraper.probe.err
                    /\ scraper.probe.read
                    /\ Reports(scraper.probe.body, k)
              /\ scraper.up = 0 \/ ~scraper.probe.body.valid =>
                    scraper.health[k] = 0

C22_Witness ==
    /\ scraper.code = StatusOK
    /\ boot.gotifyEndpoint = EpProxied
    /\ scraper.up = 1
    /\ scraper.health["health"] = 1
    /\ scraper.health["database"] = 0
    /\ scraper.probe.body.valid

(***************************************************************************)
(* The loop of handleCall with the outbound POST as two steps: client.Do   *)
(* is called, and client.Do returns.  cur.pending holds the indexes of the *)
(* alerts whose POST was made and has not returned, failed or timed out,   *)
(* cur.got the outcome of the last POST that did; hist is the log of what  *)
(* happened, in order.                                                     *)
(***************************************************************************)
\* as DoBlocks, but the POST is left to run on its own
DoBlocks_Never(pending) == FALSE

\* line 425, resp, err := client.Do(request): the goroutine of the handler
\* goes no further while a POST of it is pending
DoBlocks(pending) == pending # {}

Event(i, what) == [i |-> i, event |-> what]

\* lines 206-262 for a request whose body parses to n alerts
EnterLoop(appToken, n) ==
    /\ pc = "idle"
    /\ m0' = metrics
    /\ body' = GoodJSON
    /\ idx' = 0
    /\ hist' = <<>>
    /\ cur' = [alert |-> "none", post |-> NoPost, pending |-> {},
                got |-> "none"]
    /\ l' = [InitLocals EXCEPT !.token = ChooseToken(cfg, appToken)]
    /\ metrics' = Inc(metrics, "requests_received")
    /\ resp' = NoResponse
    /\ nAlerts' = n
    /\ pc' = "loop"
    /\ UNCHANGED cfg

\* lines 264-425: the next alert is taken and transformed, and its POST is
\* made if it is to be dispatched
TakeNext(alert) ==
    /\ pc = "loop"
    /\ idx < nAlerts
    /\ ~DoBlocks(cur.pending)
    /\ LET m1 == Inc(metrics, "alerts_received")
           t == Transform(cfg, alert, body, l)
       IN  IF t.panicked
           THEN /\ pc' = "panicked"
                /\ l' = t
                /\ metrics' = m1
                /\ resp' = NoResponse
                /\ cur' = [cur EXCEPT !.alert = alert, !.post = NoPost]
                /\ hist' = Append(hist, Event(idx, "panic"))
           ELSE IF t.proceed
           THEN IF ~cfg.endpointOK
                THEN LET f == NewRequestFailure([l |-> t, metrics |-> m1])
                     IN  /\ pc' = "done"
                         /\ l' = t
                         /\ metrics' = f.metrics
                         /\ resp' = f.resp
                         /\ cur' = [cur EXCEPT !.alert = alert, !.post = NoPost]
                         /\ hist' = Append(hist, Event(idx, "newrequest"))
                ELSE /\ pc' = "loop"
                     /\ l' = t
                     /\ metrics' = m1
                     /\ resp' = NoResponse
                     /\ cur' = [cur EXCEPT !.alert = alert,
                                            !.post = Outbound(t),
                                            !.pending = @ \cup {idx}]
                     /\ hist' = Append(hist, Event(idx, "post"))
           ELSE LET a == NotProceeding(cfg, [l |-> t, metrics |-> m1])
                IN  /\ pc' = "loop"
                    /\ l' = a.l
                    /\ metrics' = a.metrics
                    /\ resp' = NoResponse
                    /\ cur' = [cur EXCEPT !.alert = alert, !.post = NoPost]
                    /\ hist' = Append(hist, Event(idx, "skipped"))
    /\ idx' = idx + 1
    /\ UNCHANGED <<cfg, body, nAlerts, m0>>

\* lines 425-449: client.Do returns with the outcome o
DoReturns(o) ==
    /\ pc = "loop"
    /\ \E i \in cur.pending :
          LET a == AfterDo(i, o, [l |-> l, metrics |-> metrics])
          IN  /\ l' = a.l
              /\ metrics' = a.metrics
              /\ cur' = [cur EXCEPT !.pending = @ \ {i}, !.got = o]
              /\ hist' = Append(hist, Event(i, "returned"))
    /\ UNCHANGED <<cfg, pc, body, nAlerts, idx, resp, m0>>

\* lines 464-465, reached when the range is through
LeaveLoop ==
    /\ pc = "loop"
    /\ ~DoBlocks(cur.pending)
    /\ Respond

NextLoop ==
    \/ \E appToken \in QueryTokens, n \in 0..MaxAlerts :
          EnterLoop(appToken, n) /\ UNCHANGED rvars
    \/ \E alert \in BatchAlerts : TakeNext(alert) /\ UNCHANGED rvars
    \/ \E o \in DownstreamOutcomes : DoReturns(o) /\ UNCHANGED rvars
    \/ LeaveLoop /\ UNCHANGED rvars

SpecLoop == Init /\ [][NextLoop]_vars

\* the events of hist that take an alert
Taking == {"panic", "newrequest", "post", "skipped"}
Takes == SelectSeq(hist, LAMBDA e : e.event \in Taking)

\* C23: within a request the alerts are taken in the order of the input, one
\* at a time: the POST of alert i has returned, failed or timed out before
\* alert i+1 is transformed, so a request never has more than one POST in
\* flight, and the response is written only when no POST is left in flight.
C23_OneAlertAtATime ==
    pc # "idle" =>
        /\ Cardinality(cur.pending) <= 1
        /\ \A k \in DOMAIN Takes : Takes[k].i = k - 1
        /\ \A k \in DOMAIN hist :
              hist[k].event = "post" =>
                 IF k = Len(hist) THEN cur.pending = {hist[k].i}
                 ELSE hist[k + 1] = Event(hist[k].i, "returned")
        /\ \A k \in DOMAIN hist :
              hist[k].event = "returned" =>
                 k > 1 /\ hist[k - 1] = Event(hist[k].i, "post")
        /\ resp.code # 0 => cur.pending = {}

C23_Witness ==
    /\ pc = "done"
    /\ nAlerts = MaxAlerts
    /\ Len(Takes) = MaxAlerts
    /\ Len(hist) = 2 * MaxAlerts
    /\ resp.code = StatusOK

\* the step in which a POST returns with a status other than 200
Non200Returns ==
    /\ pc = "loop"
    /\ Len(hist') = Len(hist) + 1
    /\ hist'[Len(hist')].event = "returned"
    /\ ~cur'.got.err
    /\ cur'.got.status # 200

\* C24: when the POST of an alert returns a status s other than 200,
\* alerts_failed grows by exactly 1, alerts_processed and the other counters
\* stay, the status of the response becomes s, one error line is appended to
\* the lines collected so far, and the loop goes on with the next alert.
C24_Non200IsMirrored ==
    [][Non200Returns =>
          /\ metrics' = [metrics EXCEPT !["alerts_failed"] = @ + 1]
          /\ l'.respCode = cur'.got.status
          /\ l'.text = Append(l.text, <<"Gotify Error: ", ToString(cur'.got.status)>>)
          /\ pc' = "loop"
          /\ idx' = idx
          /\ cur'.pending = {}
          /\ resp' = NoResponse]_vars

C24_Witness ==
    /\ pc = "done"
    /\ Len(hist) = 2 * MaxAlerts
    /\ hist[2].event = "returned"
    /\ Delta("alerts_failed") = 1
    /\ Delta("alerts_processed") = MaxAlerts - 1
    /\ ~cur.got.err
    /\ cur.got.status = StatusOK
    /\ resp.code = 503

\* C25: with extended details, the notification dispatched for an alert
\* whose title and message annotations are present and render has, for the
\* status "firing", a title that starts with "[FIR] " and a message that
\* starts with the FIRING marker, for "resolved" a title that starts with
\* "[RES] " and a message that starts with the RESOLVED marker, and for any
\* other status neither; its extras carry the text/html display hint.
C25_StatusMarkers ==
    (cfg.extendedDetails /\ Len(hist) = 1 /\ cur.post.sent
       /\ ~hist[1].lacks /\ ~hist[1].fails) =>
        LET title == cur.post.title
            message == cur.post.message
        IN  /\ cur.alert.Status = "firing" =>
                  /\ HasPrefix(title, <<"[FIR] ">>)
                  /\ HasPrefix(message, <<MarkerFiring>>)
            /\ cur.alert.Status = "resolved" =>
                  /\ HasPrefix(title, <<"[RES] ">>)
                  /\ HasPrefix(message, <<MarkerResolved>>)
            /\ cur.alert.Status \notin {"firing", "resolved"} =>
                  /\ ~HasPrefix(title, <<"[FIR] ">>)
                  /\ ~HasPrefix(title, <<"[RES] ">>)
                  /\ ~HasPrefix(message, <<MarkerFiring>>)
                  /\ ~HasPrefix(message, <<MarkerResolved>>)
            /\ <<"client::display", "text/html">> \in cur.post.extras

\* the start-time annotation built from at most the first StartsAtCut
\* characters of StartsAt
StartTimeNote(alert) ==
    SubSeq(alert.StartsAt, 1,
           IF Len(alert.StartsAt) < StartsAtCut THEN Len(alert.StartsAt)
           ELSE StartsAtCut)
      \o <<"</font></i><br/>">>

\* C26: with extended details, for an alert whose StartsAt is not empty, of
\* any length, the transform completes, the message of its notification
\* ends with the start-time annotation built from at most the first 19
\* characters of StartsAt, and the request gets its aggregated response
\* with all its alerts taken (stated for an endpoint http.NewRequest
\* accepts).
C26_ShortStartsAt ==
    (cfg.extendedDetails /\ cfg.endpointOK /\ Len(hist) >= 1
       /\ cur.alert.StartsAt # <<>>) =>
        /\ pc # "panicked"
        /\ ~l.panicked
        /\ cur.post.sent =>
              LET m == cur.post.message
                  n == StartTimeNote(cur.alert)
              IN  /\ Len(m) >= Len(n)
                  /\ SubSeq(m, Len(m) - Len(n) + 1, Len(m)) = n
        /\ Ended => /\ pc = "done"
                    /\ resp.code # 0
                    /\ Len(hist) = nAlerts

\* C27: the notification POSTed for an alert whose priority annotation is
\* absent, or present with a text that does not parse as an integer (such as
\* "critical"), has the configured default priority and no other value.
C27_DefaultPriorityOtherwise ==
    (Len(hist) = 1 /\ cur.post.sent
       /\ \/ priorityAnnotation \notin DOMAIN cur.alert.Annotations
          \/ ~Atoi(cur.alert.Annotations[priorityAnnotation]).ok) =>
        cur.post.priority = cfg.defaultPriority

(***************************************************************************)
(* The handler on batches of alerts that carry an external URL, or none,   *)
(* and whose message may call externalURL.                                 *)
(***************************************************************************)
URLAlerts ==
    [Annotations : [{titleAnnotation, messageAnnotation} ->
                       {TplPlain, TplExternalURL}],
     Status : {"firing"}, GeneratorURL : {GenHTTP}, StartsAt : {StartsAtLong},
     ExternalURL : {""} \cup ValidURLs \cup BadURLs]

MaxURLAlerts == 2

NextURL ==
    \/ \E appToken \in QueryTokens, n \in 0..MaxURLAlerts :
          Receive(GoodJSON, appToken, n) /\ UNCHANGED rvars
    \/ \E alert \in URLAlerts, o \in DownstreamOutcomes :
          ProcessAlert(alert, o) /\ UNCHANGED rvars
    \/ Respond /\ UNCHANGED rvars

SpecURL == Init /\ [][NextURL]_vars

\* the locals of a handler that has taken no alert yet
AtFirstAlert == [InitLocals EXCEPT !.token = l.token]

\* C28: the notification POSTed for alert i is the one the transform yields
\* from alert i, the configuration and the raw body alone, whatever alerts
\* came before it; the external URL alert i is rendered with is the one
\* parsed from alert i, and there is none when alert i carries none or one
\* that does not parse.
C28_DependsOnItsAlertOnly ==
    (Len(hist) >= 1 /\ pc # "idle") =>
        /\ l.externalURL = IF cur.alert.ExternalURL = "" THEN NoURL
                           ELSE ParseURL(cur.alert.ExternalURL)
        /\ LET alone == Transform(cfg, cur.alert, body, AtFirstAlert)
           IN  /\ cur.post.sent => cur.post = Outbound(alone)
               /\ hist[Len(hist)].proceed = alone.proceed

\* C29: at the end of a request whose body parsed, the status of the
\* response is 200 exactly when every alert of the request was counted in
\* alerts_processed, the alerts whose diagnostic notification was delivered
\* with 200 in dispatch-errors mode included.
C29_OKIffAllProcessed ==
    (pc = "done" /\ Parsed) =>
        (resp.code = StatusOK <=> Delta("alerts_processed") = nAlerts)

\* the outcome of client.Do that hist records under the name out
OutcomeOf(out) ==
    CHOOSE o \in DownstreamOutcomes :
        IF out = "error" THEN o.err
        ELSE IF out = "200" THEN ~o.err /\ o.status = 200
        ELSE ~o.err /\ o.status # 200

\* what the handler of the bridge c leaves behind for a request of the one
\* alert a, from the metrics m on, when the POST it makes has the outcome out
OneAlert(c, a, out, token, m) ==
    LET m1 == Inc(Inc(m, "requests_received"), "alerts_received")
        t == Transform(c, a, GoodJSON, [InitLocals EXCEPT !.token = token])
        end == IF t.proceed
               THEN AfterDo(0, OutcomeOf(out), [l |-> t, metrics |-> m1])
               ELSE NotProceeding(c, [l |-> t, metrics |-> m1])
    IN  [resp |-> HttpError(end.l.text, end.l.respCode),
         metrics |-> end.metrics,
         post |-> IF t.proceed THEN Outbound(t) ELSE NoPost]

\* C30: debug changes the log only.  A request of one alert that ended with
\* a response has the status, the body, the POST and the counters that the
\* same request has on the same bridge with debug off.
C30_DebugOnlyLogs ==
    (pc = "done" /\ Parsed /\ nAlerts = 1 /\ Len(hist) = 1
       /\ hist[1].out \in {"none", "200", "non200", "error"}) =>
        LET quiet == OneAlert([cfg EXCEPT !.debug = FALSE], cur.alert,
                              hist[1].out, l.token, m0)
        IN  /\ resp = quiet.resp
            /\ metrics = quiet.metrics
            /\ cur.post = quiet.post

====
